---- MODULE Spec2Model ----
(***************************************************************************)
(* Model of ws2811.c: the WS281x LED driver that encodes a colour buffer   *)
(* into a PWM bit stream and feeds it to the PWM FIFO with a DMA engine.   *)
(*                                                                         *)
(* A 32-bit buffer word is modelled as the set of its bit positions that   *)
(* are 1 (a subset of 0..31), so that `w &= ~(1 << b)` is w \ {b} and      *)
(* `w |= (1 << b)` is w \cup {b}.                                          *)
(***************************************************************************)
EXTENDS Integers, Sequences, FiniteSets, TLC

\* ---- bounds of the model ------------------------------------------------
MaxLeds == 1
\* pages the page allocator may link beyond those the buffer needs
MaxSlack == 1
\* LEDs per channel when the size of the buffer is at stake
MaxSizeLeds == 6

\* ---- program constants --------------------------------------------------
RPI_PWM_CHANNELS == 2
LED_RESET_uS == 55
SYMBOL_HIGH == 6
SYMBOL_LOW == 4

Chans ==
    0 .. (RPI_PWM_CHANNELS - 1)

\* frequencies the client may configure (55 * 3 * freq stays below 2^31)
Freqs ==
    {400000, 800000}

\* packed colours the client may store in an LED (0x000000, 0x010203, 0xFFFFFF)
Colors ==
    {0, 66051, 16777215}

Windows ==
    {"dma", "pwm", "gpio", "cm_pwm"}

WordOnes ==
    0 .. 31

\* ---- sizing macros ------------------------------------------------------
LED_BIT_COUNT(n, f) ==
    (n * 3 * 8 * 3) + ((LED_RESET_uS * (f * 3)) \div 1000000)

PWM_BYTE_COUNT_noround(n, f) ==
    ((((LED_BIT_COUNT(n, f) \div 8) + 4) + 4) * RPI_PWM_CHANNELS)

PWM_BYTE_COUNT(n, f) ==
    (((((LED_BIT_COUNT(n, f) \div 8) - ((LED_BIT_COUNT(n, f) \div 8) % 8)) + 4) + 4)
        * RPI_PWM_CHANNELS)

max_channel_led_count(cnt) ==
    LET m0 == IF cnt[0] > 0 THEN cnt[0] ELSE 0
    IN  IF cnt[1] > m0 THEN cnt[1] ELSE m0

\* ---- pwm_raw_init -------------------------------------------------------
pwm_raw_init(cnt, inv, f) ==
    LET bytes == PWM_BYTE_COUNT(max_channel_led_count(cnt), f)
        wordcount == (bytes \div 4) \div RPI_PWM_CHANNELS
    IN  [w \in 0 .. (2 * wordcount - 1) |->
            IF inv[w % 2] THEN WordOnes ELSE {}]

\* ---- the encoder of ws2811_render ---------------------------------------
\* colour bytes of one LED in emission order
LedColor_rgb(led) ==
    << (led \div 65536) % 256, (led \div 256) % 256, led % 256 >>

LedColor(led) ==
    << (led \div 256) % 256, (led \div 65536) % 256, led % 256 >>

\* symbol of bit k of a colour byte
SymbolFor(byte, k, inv) ==
    LET s == IF (byte \div (2 ^ k)) % 2 = 1 THEN SYMBOL_HIGH ELSE SYMBOL_LOW
    IN  IF inv THEN 7 - s ELSE s

\* the word after `word &= ~(1 << b); if (v) word |= (1 << b);`
StoreBit_accumulate(word, b, v) ==
    IF v = 1 THEN word \cup {b} ELSE word

StoreBit(word, b, v) ==
    IF v = 1 THEN (word \ {b}) \cup {b} ELSE word \ {b}

\* one pass of the innermost loop: store one sub-bit and advance the cursor
WriteBit_step1(st, chan, v) ==
    LET w == st.wordpos
        b == st.bitpos
        inb == w \in DOMAIN st.raw
        word == IF inb THEN StoreBit(st.raw[w], b, v) ELSE {}
    IN  [ raw     |-> IF inb THEN [st.raw EXCEPT ![w] = word] ELSE st.raw,
          wordpos |-> IF b - 1 < 0 THEN w + 1 ELSE w,
          bitpos  |-> IF b - 1 < 0 THEN 31 ELSE b - 1,
          touched |-> st.touched \cup {<<chan, w>>},
          emitted |-> [st.emitted EXCEPT ![chan] = Append(@, v)],
          oob     |-> st.oob \/ ~inb ]

WriteBit(st, chan, v) ==
    LET w == st.wordpos
        b == st.bitpos
        inb == w \in DOMAIN st.raw
        word == IF inb THEN StoreBit(st.raw[w], b, v) ELSE {}
    IN  [ raw     |-> IF inb THEN [st.raw EXCEPT ![w] = word] ELSE st.raw,
          wordpos |-> IF b - 1 < 0 THEN w + 2 ELSE w,
          bitpos  |-> IF b - 1 < 0 THEN 31 ELSE b - 1,
          touched |-> st.touched \cup {<<chan, w>>},
          emitted |-> [st.emitted EXCEPT ![chan] = Append(@, v)],
          oob     |-> st.oob \/ ~inb ]

\* The loops below evaluate each pass before the next one starts, as C does: the
\* test on the cursor (always true, bitpos stays in 0..31) only fixes that order.
RECURSIVE SymbolLoop(_, _, _, _)
SymbolLoop(st, chan, symbol, l) ==
    IF l < 0 THEN st
    ELSE LET n == WriteBit(st, chan, (symbol \div (2 ^ l)) % 2)
         IN  IF n.bitpos >= 0 THEN SymbolLoop(n, chan, symbol, l - 1) ELSE n

RECURSIVE BitLoop_lsb(_, _, _, _, _)
BitLoop_lsb(st, chan, byte, inv, k) ==
    IF k < 0 THEN st
    ELSE LET n == SymbolLoop(st, chan, SymbolFor(byte, 7 - k, inv), 2)
         IN  IF n.bitpos >= 0 THEN BitLoop_lsb(n, chan, byte, inv, k - 1) ELSE n

RECURSIVE BitLoop(_, _, _, _, _)
BitLoop(st, chan, byte, inv, k) ==
    IF k < 0 THEN st
    ELSE LET n == SymbolLoop(st, chan, SymbolFor(byte, k, inv), 2)
         IN  IF n.bitpos >= 0 THEN BitLoop(n, chan, byte, inv, k - 1) ELSE n

RECURSIVE ColorLoop(_, _, _, _, _)
ColorLoop(st, chan, color, inv, j) ==
    IF j >= Len(color) THEN st
    ELSE LET n == BitLoop(st, chan, color[j + 1], inv, 7)
         IN  IF n.bitpos >= 0 THEN ColorLoop(n, chan, color, inv, j + 1) ELSE n

RECURSIVE LedLoop(_, _, _, _, _, _)
LedLoop(st, chan, cnt, ledarr, inv, i) ==
    IF i >= cnt THEN st
    ELSE LET n == ColorLoop(st, chan, LedColor(ledarr[i + 1]), inv, 0)
         IN  IF n.bitpos >= 0 THEN LedLoop(n, chan, cnt, ledarr, inv, i + 1) ELSE n

RECURSIVE ChanLoop(_, _, _, _, _)
ChanLoop(st, cnt, ledarr, inv, chan) ==
    IF chan >= RPI_PWM_CHANNELS THEN st
    ELSE ChanLoop(LedLoop([st EXCEPT !.wordpos = chan], chan, cnt[chan],
                          ledarr[chan], inv[chan], 0),
                  cnt, ledarr, inv, chan + 1)

\* the whole encoding pass: bitpos starts at 31 once, before the channel loop
Encode(buf, cnt, ledarr, inv) ==
    ChanLoop([ raw |-> buf, wordpos |-> 0, bitpos |-> 31, touched |-> {},
               emitted |-> [c \in Chans |-> << >>], oob |-> FALSE ],
             cnt, ledarr, inv, 0)

\* ---- state --------------------------------------------------------------
VARIABLES
    count, invert, freq,        \* ws2811_t configuration: channel[].count, channel[].invert, freq
    ledsPtr, leds,              \* channel[].leds: the pointer and the array it points to
    device,                     \* ws2811->device: "NULL" or "PTR"
    pwm_raw, dma_cb, regs,      \* device->pwm_raw, device->dma_cb, device->{dma,pwm,gpio,cm_pwm}
    heap,                       \* live allocations of malloc / the page allocator
    mapped,                     \* register windows mapped by the latest init and still mapped
    raw,                        \* the words of the raw PWM buffer
    pages,                      \* device->page_head: number of pages backing the raw buffer
    cbs,                        \* the DMA control blocks written by setup_pwm
    dmaActive, dmaError,        \* DMA CS register: ACTIVE and ERROR flags
    pwmOn, clkEnab, clkBusy,    \* PWM CTL enable bits, clock manager ENAB and BUSY
    pc, call, ret,              \* position of the calling thread, API call in progress, last result
    wret, obsActive, obsError,  \* ws2811_wait: its result, its latest reading of ACTIVE, whether
    sawActive,                  \*   it read ERROR set, whether it read ACTIVE set (this call)
    doubleFree, nullDeref,      \* a free of a dead allocation / a read through a null pointer happened
    wroteWhileActive,           \* the latest render wrote the buffer while DMA ACTIVE was set
    touched, emitted, oob,      \* the latest render: (channel, word) pairs written, sub-bits per channel
    rewrote,                    \* the latest render changed a buffer that held an earlier frame
    cleanupRun, initRes,        \* consecutive ws2811_cleanup calls; result of the latest init
    lookupFailed                \* an addr_to_bus call of the latest init returned the sentinel

vars ==
    << count, invert, freq, ledsPtr, leds, device, pwm_raw, dma_cb, regs, heap, mapped,
       raw, pages, cbs, dmaActive, dmaError, pwmOn, clkEnab, clkBusy, pc, call, ret,
       wret, obsActive, obsError, sawActive, doubleFree, nullDeref, wroteWhileActive,
       touched, emitted, oob, rewrote, cleanupRun, initRes, lookupFailed >>

cfgVars ==
    << count, invert, freq >>

memVars ==
    << ledsPtr, leds, device, pwm_raw, dma_cb, regs, heap, mapped, raw, pages, cbs,
       doubleFree >>

hwVars ==
    << dmaActive, dmaError, pwmOn, clkEnab, clkBusy >>

waitVars ==
    << wret, obsActive, obsError, sawActive >>

encVars ==
    << wroteWhileActive, touched, emitted, oob, rewrote >>

NoRegs ==
    [w \in Windows |-> "uninit"]

NoRaw ==
    [w \in {} |-> {}]

NoLeds ==
    [c \in Chans |-> << >>]

LedsRes(c) ==
    IF c = 0 THEN "leds0" ELSE "leds1"

Init ==
    /\ count \in [Chans -> 0 .. MaxLeds]
    /\ invert \in [Chans -> BOOLEAN]
    /\ freq \in Freqs
    /\ ledsPtr = [c \in Chans |-> "NULL"]
    /\ leds = NoLeds
    /\ device = "NULL"
    /\ pwm_raw = "NULL"
    /\ dma_cb = "NULL"
    /\ regs = NoRegs
    /\ heap = {}
    /\ mapped = {}
    /\ raw = NoRaw
    /\ pages = 0
    /\ cbs = << >>
    /\ dmaActive = FALSE
    /\ dmaError = FALSE
    /\ pwmOn = FALSE
    /\ clkEnab = FALSE
    /\ clkBusy = FALSE
    /\ pc = "idle"
    /\ call = "none"
    /\ ret = "none"
    /\ wret = "none"
    /\ obsActive = "none"
    /\ obsError = FALSE
    /\ sawActive = FALSE
    /\ doubleFree = FALSE
    /\ nullDeref = FALSE
    /\ wroteWhileActive = FALSE
    /\ touched = {}
    /\ emitted = NoLeds
    /\ oob = FALSE
    /\ rewrote = FALSE
    /\ cleanupRun = 0
    /\ initRes = "none"
    /\ lookupFailed = FALSE

\* ---- memory: the fields of ws2811_t / ws2811_device_t and what they own ---
Mem ==
    [ ledsPtr |-> ledsPtr, leds |-> leds, device |-> device, pwm_raw |-> pwm_raw,
      dma_cb |-> dma_cb, regs |-> regs, heap |-> heap, mapped |-> mapped,
      raw |-> raw, pages |-> pages, cbs |-> cbs, doubleFree |-> doubleFree ]

SetMem(m) ==
    /\ ledsPtr' = m.ledsPtr
    /\ leds' = m.leds
    /\ device' = m.device
    /\ pwm_raw' = m.pwm_raw
    /\ dma_cb' = m.dma_cb
    /\ regs' = m.regs
    /\ heap' = m.heap
    /\ mapped' = m.mapped
    /\ raw' = m.raw
    /\ pages' = m.pages
    /\ cbs' = m.cbs
    /\ doubleFree' = m.doubleFree

\* free() / dma_page_free() of allocation r
Free(m, r) ==
    [m EXCEPT !.heap = @ \ {r}, !.doubleFree = @ \/ (r \notin m.heap)]

\* malloc() / dma_alloc() / dma_desc_alloc() of allocation r
Alloc(m, r) ==
    [m EXCEPT !.heap = @ \cup {r}]

RECURSIVE cleanup_leds(_, _)
cleanup_leds(m, chan) ==
    IF chan >= RPI_PWM_CHANNELS THEN m
    ELSE LET m1 == IF m.ledsPtr[chan] # "NULL" THEN Free(m, LedsRes(chan)) ELSE m
         IN  cleanup_leds([m1 EXCEPT !.ledsPtr[chan] = "NULL", !.leds[chan] = << >>],
                          chan + 1)

cleanup_device(m) ==
    LET b == IF m.pwm_raw # "NULL"
             THEN [Free(m, "pwm_raw") EXCEPT !.pwm_raw = "NULL", !.raw = NoRaw,
                                             !.pages = 0]
             ELSE m
        c == IF b.dma_cb # "NULL"
             THEN [Free(b, "dma_cb") EXCEPT !.dma_cb = "NULL", !.cbs = << >>]
             ELSE b
    IN  [Free(c, "device") EXCEPT !.regs = NoRegs]

ws2811_cleanup_keepdev(m) ==
    LET a == cleanup_leds(m, 0)
    IN  IF a.device # "NULL" THEN cleanup_device(a) ELSE a

ws2811_cleanup(m) ==
    LET a == cleanup_leds(m, 0)
        d == IF a.device # "NULL" THEN cleanup_device(a) ELSE a
    IN  [d EXCEPT !.device = "NULL"]

\* ---- register windows --------------------------------------------------
MapOrder ==
    << "dma", "pwm", "gpio", "cm_pwm" >>

RECURSIVE map_from(_, _, _)
map_from(m, fail, i) ==
    IF i > Len(MapOrder) THEN [m |-> m, rc |-> 0]
    ELSE IF MapOrder[i] = fail
         THEN [m |-> [m EXCEPT !.regs[MapOrder[i]] = "NULL"], rc |-> -1]
         ELSE map_from([m EXCEPT !.regs[MapOrder[i]] = "mapped",
                                 !.mapped = @ \cup {MapOrder[i]}], fail, i + 1)

map_registers(m, fail) ==
    IF fail = "dmanum" THEN [m |-> m, rc |-> -1] ELSE map_from(m, fail, 1)

unmap_registers(m) ==
    [m EXCEPT !.mapped = @ \ {w \in Windows : m.regs[w] # "NULL"}]

\* ---- the pages behind the raw buffer --------------------------------------
PAGE_SIZE == 4096

\* pages a buffer of n bytes needs; the page allocator links these, and possibly
\* more, into page_head
PagesFor(n) ==
    (n + PAGE_SIZE - 1) \div PAGE_SIZE

\* ---- ws2811_init up to the call of setup_pwm ------------------------------
\* the step at which the call fails: an allocation, the bus address lookup, the
\* DMA number lookup, the mapping of one window, or an unsupported pin
InitFailures ==
    {"device", "leds0", "leds1", "pwm_raw", "dma_cb", "bus", "dmanum", "pin"} \cup Windows

init_gpio(m, fail) ==
    IF fail = "pin"
    THEN [m |-> ws2811_cleanup(unmap_registers(m)), rc |-> -1]
    ELSE [m |-> m, rc |-> 0]

init_map(m, fail) ==
    LET r == map_registers(m, fail)
    IN  IF r.rc # 0
        THEN [m |-> ws2811_cleanup(r.m), rc |-> -1]
        ELSE init_gpio(r.m, fail)

init_buffers(m, cnt, inv, f, fail, slack) ==
    IF fail = "pwm_raw" THEN [m |-> ws2811_cleanup(m), rc |-> -1]
    ELSE LET m1 == [Alloc(m, "pwm_raw") EXCEPT
                        !.pwm_raw = "PTR",
                        !.pages = PagesFor(PWM_BYTE_COUNT(max_channel_led_count(cnt), f))
                                      + slack,
                        !.raw = pwm_raw_init(cnt, inv, f)]
         IN  IF fail = "dma_cb" THEN [m |-> ws2811_cleanup(m1), rc |-> -1]
             ELSE LET m2 == [Alloc(m1, "dma_cb") EXCEPT !.dma_cb = "PTR"]
                  IN  IF fail = "bus" THEN [m |-> ws2811_cleanup(m2), rc |-> -1]
                      ELSE init_map(m2, fail)

RECURSIVE init_leds(_, _, _, _, _, _, _)
init_leds(m, cnt, inv, f, fail, slack, chan) ==
    IF chan >= RPI_PWM_CHANNELS THEN init_buffers(m, cnt, inv, f, fail, slack)
    ELSE IF fail = LedsRes(chan) THEN [m |-> ws2811_cleanup(m), rc |-> -1]
         ELSE init_leds([Alloc(m, LedsRes(chan)) EXCEPT
                             !.ledsPtr[chan] = "PTR",
                             !.leds[chan] = [i \in 1 .. cnt[chan] |-> 0]],
                        cnt, inv, f, fail, slack, chan + 1)

init_front(m, cnt, inv, f, fail, slack) ==
    IF fail = "device" THEN [m |-> [m EXCEPT !.device = "NULL"], rc |-> -1]
    ELSE init_leds([Alloc(m, "device") EXCEPT
                        !.device = "PTR", !.pwm_raw = "NULL", !.dma_cb = "NULL",
                        !.regs = NoRegs, !.ledsPtr = [c \in Chans |-> "NULL"]],
                   cnt, inv, f, fail, slack, 0)

\* ---- setup_pwm: the control block chain -----------------------------------
\* A control block is [source_ad, txfr_len, nextconbk]; source_ad is the number
\* of the page it reads, nextconbk the index of the linked block (0 ends the
\* chain).  Block k of the storage is cb[k]; blocks never written are absent.
\* A block that only the terminator wrote is given length 0 and source 0: in the
\* program its other fields are whatever the descriptor storage held.
Terminate(cb, k) ==
    IF k \in DOMAIN cb
    THEN [cb EXCEPT ![k].nextconbk = 0]
    ELSE [i \in (DOMAIN cb) \cup {k} |->
            IF i = k THEN [source_ad |-> 0, txfr_len |-> 0, nextconbk |-> 0] ELSE cb[i]]

\* what addr_to_bus returns when the lookup fails: ~0UL
BUS_FAIL == -1

\* the blocks the loop has filled in (a block the loop never wrote has length 0)
WrittenBlocks(cb) ==
    {k \in DOMAIN cb : cb[k].txfr_len > 0}

\* failPage: the page whose source address lookup fails; failLink: the block
\* whose link lookup, addr_to_bus(dma_cb + 1), fails (0: none)
RECURSIVE chain_loop(_, _, _, _, _, _, _)
chain_loop(cb, k, p, npages, byte_count, failPage, failLink) ==
    IF p + 1 > npages \/ byte_count = 0 THEN [cbs |-> Terminate(cb, k), rc |-> 0]
    ELSE LET page_bytes == IF PAGE_SIZE < byte_count THEN PAGE_SIZE ELSE byte_count
             cb1 == [i \in (DOMAIN cb) \cup {k} |->
                        IF i = k THEN [source_ad |-> p + 1, txfr_len |-> page_bytes,
                                       nextconbk |-> IF failLink = k THEN BUS_FAIL
                                                     ELSE k + 1]
                        ELSE cb[i]]
         IN  IF failPage = p + 1 THEN [cbs |-> cb, rc |-> -1]
             ELSE IF p + 2 > npages THEN [cbs |-> Terminate(cb1, k), rc |-> 0]
                  ELSE chain_loop(cb1, k + 1, p + 1, npages, byte_count - page_bytes,
                                  failPage, failLink)

build_chain(cnt, f, npages, failPage, failLink) ==
    LET bytes == PWM_BYTE_COUNT(max_channel_led_count(cnt), f)
    IN  chain_loop(<< >>, 1, 0, npages, bytes, failPage, failLink)

\* ---- API calls made by the client thread --------------------------------
ResetWait ==
    /\ wret' = "none"
    /\ obsActive' = "none"
    /\ obsError' = FALSE
    /\ sawActive' = FALSE

\* no render has written the (new or freed) buffer yet
ClearEnc ==
    /\ wroteWhileActive' = FALSE
    /\ touched' = {}
    /\ emitted' = NoLeds
    /\ oob' = FALSE
    /\ rewrote' = FALSE

\* ws2811_init, lines 545-613: allocation, mapping, GPIO; then setup_pwm follows
InitCall(fail, slack) ==
    /\ pc = "idle"
    /\ device = "NULL"
    /\ LET r == init_front([Mem EXCEPT !.mapped = {}], count, invert, freq, fail, slack)
       IN  /\ SetMem(r.m)
           /\ IF r.rc = 0
              THEN /\ pc' = "stop_pwm"
                   /\ call' = "init"
                   /\ ret' = "none"
                   /\ initRes' = "none"
              ELSE /\ pc' = "idle"
                   /\ call' = "none"
                   /\ ret' = "init_fail"
                   /\ initRes' = "fail"
    /\ lookupFailed' = (fail = "bus")
    /\ cleanupRun' = 0
    /\ ResetWait
    /\ ClearEnc
    /\ UNCHANGED << cfgVars, hwVars, nullDeref >>

\* ws2811_render, lines 683-744: the encoding pass; the wait and dma_start follow
RenderCall ==
    /\ pc = "idle"
    /\ device = "PTR"
    /\ \E e \in {Encode(raw, count, leds, invert)} :
           /\ raw' = e.raw
           /\ touched' = e.touched
           /\ emitted' = e.emitted
           /\ oob' = e.oob
           /\ wroteWhileActive' = (dmaActive /\ e.touched # {})
           /\ rewrote' = (touched # {} /\ e.raw # raw)
    /\ pc' = "wait_active"
    /\ call' = "render"
    /\ ret' = "none"
    /\ cleanupRun' = 0
    /\ ResetWait
    /\ UNCHANGED << cfgVars, ledsPtr, leds, device, pwm_raw, dma_cb, regs, heap, mapped, pages,
                    cbs, doubleFree, hwVars, nullDeref, initRes, lookupFailed >>

\* ws2811_wait called by the client
WaitCall ==
    /\ pc = "idle"
    /\ device = "PTR"
    /\ pc' = "wait_active"
    /\ call' = "wait"
    /\ ret' = "none"
    /\ cleanupRun' = 0
    /\ ResetWait
    /\ UNCHANGED << cfgVars, memVars, hwVars, encVars, nullDeref, initRes, lookupFailed >>

\* ws2811_fini: its first statement is ws2811_wait, which reads ws2811->device->dma
FiniCall_nowait ==
    /\ pc = "idle"
    /\ call' = "fini"
    /\ ret' = "none"
    /\ cleanupRun' = 0
    /\ ResetWait
    /\ IF device = "NULL"
       THEN /\ nullDeref' = TRUE
            /\ pc' = "crashed"
       ELSE /\ nullDeref' = nullDeref
            /\ pc' = "stop_pwm"
    /\ UNCHANGED << cfgVars, memVars, hwVars, encVars, initRes, lookupFailed >>

FiniCall ==
    /\ pc = "idle"
    /\ call' = "fini"
    /\ ret' = "none"
    /\ cleanupRun' = 0
    /\ ResetWait
    /\ IF device = "NULL"
       THEN /\ nullDeref' = TRUE
            /\ pc' = "crashed"
       ELSE /\ nullDeref' = nullDeref
            /\ pc' = "wait_active"
    /\ UNCHANGED << cfgVars, memVars, hwVars, encVars, initRes, lookupFailed >>

\* ws2811_cleanup called by the client
CleanupCall ==
    /\ pc = "idle"
    /\ SetMem(ws2811_cleanup(Mem))
    /\ ret' = "cleanup"
    /\ cleanupRun' = IF cleanupRun < 2 THEN cleanupRun + 1 ELSE 2
    /\ ResetWait
    /\ ClearEnc
    /\ UNCHANGED << cfgVars, hwVars, pc, call, nullDeref, initRes, lookupFailed >>

\* ---- ws2811_wait -------------------------------------------------------
\* loop condition, first operand: dma->cs & RPI_DMA_CS_ACTIVE
WaitPollActive_noloop ==
    /\ pc = "wait_active"
    /\ sawActive' = (sawActive \/ dmaActive)
    /\ obsActive' = IF dmaActive THEN "set" ELSE "clear"
    /\ pc' = "wait_check"
    /\ UNCHANGED << cfgVars, memVars, hwVars, encVars, wret, obsError, call, ret,
                    nullDeref, cleanupRun, initRes, lookupFailed >>

WaitPollActive ==
    /\ pc = "wait_active"
    /\ sawActive' = (sawActive \/ dmaActive)
    /\ obsActive' = IF dmaActive THEN "set" ELSE "clear"
    /\ pc' = IF dmaActive THEN "wait_error" ELSE "wait_check"
    /\ UNCHANGED << cfgVars, memVars, hwVars, encVars, wret, obsError, call, ret,
                    nullDeref, cleanupRun, initRes, lookupFailed >>

\* loop condition, second operand: !(dma->cs & RPI_DMA_CS_ERROR); then usleep
WaitPollError ==
    /\ pc = "wait_error"
    /\ obsError' = (obsError \/ dmaError)
    /\ pc' = IF dmaError THEN "wait_check" ELSE "wait_active"
    /\ UNCHANGED << cfgVars, memVars, hwVars, encVars, wret, obsActive, sawActive, call, ret,
                    nullDeref, cleanupRun, initRes, lookupFailed >>

\* the value ws2811_wait returns for the error flag it reads after the loop
WaitResult_ignore(err) ==
    "ok"

WaitResult(err) ==
    IF err THEN "err" ELSE "ok"

\* if (dma->cs & RPI_DMA_CS_ERROR) return -1; return 0; and what the caller does next
WaitCheck ==
    /\ pc = "wait_check"
    /\ obsError' = (obsError \/ dmaError)
    /\ wret' = WaitResult(dmaError)
    /\ UNCHANGED << obsActive, sawActive >>
    /\ IF call = "fini"
       THEN /\ pc' = "stop_pwm"
            /\ UNCHANGED << call, ret >>
       ELSE IF call = "render" /\ wret' = "ok"
            THEN /\ pc' = "dma_start"
                 /\ UNCHANGED << call, ret >>
            ELSE /\ pc' = "idle"
                 /\ call' = "none"
                 /\ ret' = IF call = "render" THEN "render_fail"
                           ELSE IF wret' = "ok" THEN "wait_ok" ELSE "wait_fail"
    /\ UNCHANGED << cfgVars, memVars, hwVars, encVars, nullDeref, cleanupRun, initRes, lookupFailed >>

\* ---- dma_start, then ws2811_render returns 0 ------------------------------
DmaStart ==
    /\ pc = "dma_start"
    /\ dmaActive' = TRUE
    /\ pc' = "idle"
    /\ call' = "none"
    /\ ret' = "render_ok"
    /\ UNCHANGED << cfgVars, memVars, dmaError, pwmOn, clkEnab, clkBusy, waitVars, encVars,
                    nullDeref, cleanupRun, initRes, lookupFailed >>

\* ---- stop_pwm ------------------------------------------------------------
\* pwm->ctl = 0; cm_pwm->ctl = PASSWD | KILL
StopPwm ==
    /\ pc = "stop_pwm"
    /\ pwmOn' = FALSE
    /\ clkEnab' = FALSE
    /\ pc' = "stop_poll"
    /\ UNCHANGED << cfgVars, memVars, dmaActive, dmaError, clkBusy, waitVars, encVars,
                    call, ret, nullDeref, cleanupRun, initRes, lookupFailed >>

\* while (cm_pwm->ctl & CM_PWM_CTL_BUSY) ;
StopPoll_nopoll ==
    /\ pc = "stop_poll"
    /\ pc' = IF call = "init" THEN "clk_setup" ELSE "fini_unmap"
    /\ UNCHANGED << cfgVars, memVars, hwVars, waitVars, encVars, call, ret, nullDeref,
                    cleanupRun, initRes, lookupFailed >>

StopPoll ==
    /\ pc = "stop_poll"
    /\ ~clkBusy
    /\ pc' = IF call = "init" THEN "clk_setup" ELSE "fini_unmap"
    /\ UNCHANGED << cfgVars, memVars, hwVars, waitVars, encVars, call, ret, nullDeref,
                    cleanupRun, initRes, lookupFailed >>

\* ---- setup_pwm after stop_pwm ---------------------------------------------
\* divider, source, then ENAB
ClkSetup ==
    /\ pc = "clk_setup"
    /\ clkEnab' = TRUE
    /\ pc' = "clk_poll"
    /\ UNCHANGED << cfgVars, memVars, dmaActive, dmaError, pwmOn, clkBusy, waitVars, encVars,
                    call, ret, nullDeref, cleanupRun, initRes, lookupFailed >>

\* while (!(cm_pwm->ctl & CM_PWM_CTL_BUSY)) ;
ClkPoll ==
    /\ pc = "clk_poll"
    /\ clkBusy
    /\ pc' = "pwm_setup"
    /\ UNCHANGED << cfgVars, memVars, hwVars, waitVars, encVars, call, ret, nullDeref,
                    cleanupRun, initRes, lookupFailed >>

\* rng1, CLRF1, dmac, USEF/MODE, then PWEN1 | PWEN2
PwmSetup ==
    /\ pc = "pwm_setup"
    /\ pwmOn' = TRUE
    /\ pc' = "dma_chain"
    /\ UNCHANGED << cfgVars, memVars, dmaActive, dmaError, clkEnab, clkBusy, waitVars, encVars,
                    call, ret, nullDeref, cleanupRun, initRes, lookupFailed >>

\* the control block loop, dma->cs = 0, and the return of ws2811_init:
\* failPage is the page whose bus address lookup fails, failLink the block whose
\* link lookup fails (0: none)
DmaChain(failPage, failLink) ==
    /\ pc = "dma_chain"
    /\ LET r == build_chain(count, freq, pages, failPage, failLink)
       IN  /\ lookupFailed' = (r.rc # 0 \/ failLink \in WrittenBlocks(r.cbs))
           /\ IF r.rc = 0
              THEN /\ SetMem([Mem EXCEPT !.cbs = r.cbs])
                   /\ dmaActive' = FALSE
                   /\ ret' = "init_ok"
                   /\ initRes' = "ok"
              ELSE /\ SetMem(ws2811_cleanup(unmap_registers(Mem)))
                   /\ dmaActive' = dmaActive
                   /\ ret' = "init_fail"
                   /\ initRes' = "fail"
    /\ pc' = "idle"
    /\ call' = "none"
    /\ UNCHANGED << cfgVars, dmaError, pwmOn, clkEnab, clkBusy, waitVars, encVars,
                    nullDeref, cleanupRun >>

\* ---- ws2811_fini after the wait and stop_pwm -------------------------------
FiniUnmap ==
    /\ pc = "fini_unmap"
    /\ SetMem(ws2811_cleanup(unmap_registers(Mem)))
    /\ pc' = "idle"
    /\ call' = "none"
    /\ ret' = "fini_done"
    /\ ClearEnc
    /\ UNCHANGED << cfgVars, hwVars, waitVars, nullDeref, cleanupRun, initRes, lookupFailed >>

\* ---- the hardware ----------------------------------------------------------
\* the DMA engine reaches the end of the chain
DmaComplete ==
    /\ dmaActive
    /\ ~dmaError
    /\ dmaActive' = FALSE
    /\ UNCHANGED << cfgVars, memVars, dmaError, pwmOn, clkEnab, clkBusy, waitVars, encVars,
                    pc, call, ret, nullDeref, cleanupRun, initRes, lookupFailed >>

\* the DMA engine detects an error; the ERROR flag stays set from then on
DmaFault(stays) ==
    /\ dmaActive
    /\ ~dmaError
    /\ dmaError' = TRUE
    /\ dmaActive' = stays
    /\ UNCHANGED << cfgVars, memVars, pwmOn, clkEnab, clkBusy, waitVars, encVars,
                    pc, call, ret, nullDeref, cleanupRun, initRes, lookupFailed >>

\* the clock generator follows ENAB / KILL: BUSY rises after enable, falls after kill
ClockHw ==
    /\ clkBusy # clkEnab
    /\ clkBusy' = clkEnab
    /\ UNCHANGED << cfgVars, memVars, dmaActive, dmaError, pwmOn, clkEnab, waitVars, encVars,
                    pc, call, ret, nullDeref, cleanupRun, initRes, lookupFailed >>

\* ---- the life cycle: init, render, wait, fini, cleanup against the hardware ----
\* (the LEDs keep the colour ws2811_init gives them)
Next ==
    \/ \E fail \in InitFailures \cup {"none"}, slack \in 0 .. MaxSlack : InitCall(fail, slack)
    \/ RenderCall
    \/ WaitCall
    \/ FiniCall
    \/ CleanupCall
    \/ WaitPollActive
    \/ WaitPollError
    \/ WaitCheck
    \/ DmaStart
    \/ StopPwm
    \/ StopPoll
    \/ ClkSetup
    \/ ClkPoll
    \/ PwmSetup
    \/ \E failPage \in 0 .. pages, failLink \in 0 .. pages : DmaChain(failPage, failLink)
    \/ FiniUnmap
    \/ DmaComplete
    \/ \E stays \in BOOLEAN : DmaFault(stays)
    \/ ClockHw

Spec ==
    Init /\ [][Next]_vars

\* ---- rendering: an initialized device whose LEDs the client has coloured ----
BlankMem ==
    [ ledsPtr |-> [c \in Chans |-> "NULL"], leds |-> NoLeds, device |-> "NULL",
      pwm_raw |-> "NULL", dma_cb |-> "NULL", regs |-> NoRegs, heap |-> {}, mapped |-> {},
      raw |-> NoRaw, pages |-> 0, cbs |-> << >>, doubleFree |-> FALSE ]

\* memory as a successful ws2811_init leaves it
ReadyMem(cnt, inv, f, slack) ==
    LET m == init_front(BlankMem, cnt, inv, f, "none", slack).m
    IN  [m EXCEPT !.cbs = build_chain(cnt, f, m.pages, 0, 0).cbs]

\* the colour arrays the client may have filled in
LedArrays(cnt) ==
    { [c \in Chans |-> IF c = 0 THEN a ELSE b] :
        a \in [1 .. cnt[0] -> Colors], b \in [1 .. cnt[1] -> Colors] }

InitEnc ==
    /\ count \in [Chans -> 0 .. MaxLeds]
    /\ invert \in [Chans -> BOOLEAN]
    /\ freq \in Freqs
    /\ LET m == ReadyMem(count, invert, freq, 0)
       IN  /\ ledsPtr = m.ledsPtr
           /\ leds \in LedArrays(count)
           /\ device = m.device
           /\ pwm_raw = m.pwm_raw
           /\ dma_cb = m.dma_cb
           /\ regs = m.regs
           /\ heap = m.heap
           /\ mapped = m.mapped
           /\ raw = m.raw
           /\ pages = m.pages
           /\ cbs = m.cbs
           /\ doubleFree = m.doubleFree
    /\ dmaActive = FALSE
    /\ dmaError = FALSE
    /\ pwmOn = TRUE
    /\ clkEnab = TRUE
    /\ clkBusy = TRUE
    /\ pc = "idle"
    /\ call = "none"
    /\ ret = "init_ok"
    /\ wret = "none"
    /\ obsActive = "none"
    /\ obsError = FALSE
    /\ sawActive = FALSE
    /\ nullDeref = FALSE
    /\ wroteWhileActive = FALSE
    /\ touched = {}
    /\ emitted = NoLeds
    /\ oob = FALSE
    /\ rewrote = FALSE
    /\ cleanupRun = 0
    /\ initRes = "ok"
    /\ lookupFailed = FALSE

NextEnc ==
    \/ RenderCall
    \/ WaitPollActive
    \/ WaitPollError
    \/ WaitCheck
    \/ DmaStart
    \/ DmaComplete

SpecEnc ==
    InitEnc /\ [][NextEnc]_vars

\* ---- re-rendering: the client changes colours between render calls --------
\* the colours the client stores: all data bits 0, all data bits 1
ReColors ==
    {0, 16777215}

\* the client stores colour col in LED i (1-based) of channel c
SetLed(c, i, col) ==
    /\ pc = "idle"
    /\ ledsPtr[c] = "PTR"
    /\ i \in 1 .. count[c]
    /\ leds[c][i] # col
    /\ leds' = [leds EXCEPT ![c][i] = col]
    /\ UNCHANGED << cfgVars, ledsPtr, device, pwm_raw, dma_cb, regs, heap, mapped, raw, pages,
                    cbs, doubleFree, hwVars, waitVars, encVars, pc, call, ret, nullDeref,
                    cleanupRun, initRes, lookupFailed >>

\* the device as a successful ws2811_init leaves it: every LED 0x000000
InitRe ==
    /\ count \in [Chans -> 0 .. MaxLeds]
    /\ invert \in [Chans -> BOOLEAN]
    /\ freq \in Freqs
    /\ LET m == ReadyMem(count, invert, freq, 0)
       IN  /\ ledsPtr = m.ledsPtr
           /\ leds = m.leds
           /\ device = m.device
           /\ pwm_raw = m.pwm_raw
           /\ dma_cb = m.dma_cb
           /\ regs = m.regs
           /\ heap = m.heap
           /\ mapped = m.mapped
           /\ raw = m.raw
           /\ pages = m.pages
           /\ cbs = m.cbs
           /\ doubleFree = m.doubleFree
    /\ dmaActive = FALSE
    /\ dmaError = FALSE
    /\ pwmOn = TRUE
    /\ clkEnab = TRUE
    /\ clkBusy = TRUE
    /\ pc = "idle"
    /\ call = "none"
    /\ ret = "init_ok"
    /\ wret = "none"
    /\ obsActive = "none"
    /\ obsError = FALSE
    /\ sawActive = FALSE
    /\ nullDeref = FALSE
    /\ wroteWhileActive = FALSE
    /\ touched = {}
    /\ emitted = NoLeds
    /\ oob = FALSE
    /\ rewrote = FALSE
    /\ cleanupRun = 0
    /\ initRes = "ok"
    /\ lookupFailed = FALSE

NextRe ==
    \/ \E c \in Chans, i \in 1 .. MaxLeds, col \in ReColors : SetLed(c, i, col)
    \/ RenderCall
    \/ WaitPollActive
    \/ WaitPollError
    \/ WaitCheck
    \/ DmaStart
    \/ DmaComplete

SpecRe ==
    InitRe /\ [][NextRe]_vars

\* ---- buffer size: longer strips and a low bit rate, every LED 0x000000 ------
\* frequencies for which the reset time adds less than a byte (40 kHz), and the
\* usual ones
SizeFreqs ==
    {40000} \cup Freqs

InitSize ==
    /\ count \in [Chans -> 0 .. MaxSizeLeds]
    /\ invert \in [Chans -> BOOLEAN]
    /\ freq \in SizeFreqs
    /\ LET m == ReadyMem(count, invert, freq, 0)
       IN  /\ ledsPtr = m.ledsPtr
           /\ leds = m.leds
           /\ device = m.device
           /\ pwm_raw = m.pwm_raw
           /\ dma_cb = m.dma_cb
           /\ regs = m.regs
           /\ heap = m.heap
           /\ mapped = m.mapped
           /\ raw = m.raw
           /\ pages = m.pages
           /\ cbs = m.cbs
           /\ doubleFree = m.doubleFree
    /\ dmaActive = FALSE
    /\ dmaError = FALSE
    /\ pwmOn = TRUE
    /\ clkEnab = TRUE
    /\ clkBusy = TRUE
    /\ pc = "idle"
    /\ call = "none"
    /\ ret = "init_ok"
    /\ wret = "none"
    /\ obsActive = "none"
    /\ obsError = FALSE
    /\ sawActive = FALSE
    /\ nullDeref = FALSE
    /\ wroteWhileActive = FALSE
    /\ touched = {}
    /\ emitted = NoLeds
    /\ oob = FALSE
    /\ rewrote = FALSE
    /\ cleanupRun = 0
    /\ initRes = "ok"
    /\ lookupFailed = FALSE

NextSize ==
    \/ RenderCall
    \/ WaitPollActive
    \/ WaitPollError
    \/ WaitCheck
    \/ DmaStart
    \/ DmaComplete

SpecSize ==
    InitSize /\ [][NextSize]_vars

\* ---- chain building: setup_pwm at the control block loop, large buffers ----
\* LED counts whose buffers need one page, exactly one page, two pages, exactly
\* two pages and three pages
ChainLeds ==
    {1, 225, 226, 227, 453, 454, 455}

\* ws2811_init has run up to the control block loop of setup_pwm
InitChain ==
    /\ count \in {[c \in Chans |-> IF c = 0 THEN n ELSE 0] : n \in ChainLeds}
    /\ invert \in [Chans -> BOOLEAN]
    /\ freq \in Freqs
    /\ \E slack \in 0 .. MaxSlack :
         LET m == init_front(BlankMem, count, invert, freq, "none", slack).m
         IN  /\ ledsPtr = m.ledsPtr
             /\ leds = m.leds
             /\ device = m.device
             /\ pwm_raw = m.pwm_raw
             /\ dma_cb = m.dma_cb
             /\ regs = m.regs
             /\ heap = m.heap
             /\ mapped = m.mapped
             /\ raw = m.raw
             /\ pages = m.pages
             /\ cbs = m.cbs
             /\ doubleFree = m.doubleFree
    /\ dmaActive = FALSE
    /\ dmaError = FALSE
    /\ pwmOn = TRUE
    /\ clkEnab = TRUE
    /\ clkBusy = TRUE
    /\ pc = "dma_chain"
    /\ call = "init"
    /\ ret = "none"
    /\ wret = "none"
    /\ obsActive = "none"
    /\ obsError = FALSE
    /\ sawActive = FALSE
    /\ nullDeref = FALSE
    /\ wroteWhileActive = FALSE
    /\ touched = {}
    /\ emitted = NoLeds
    /\ oob = FALSE
    /\ rewrote = FALSE
    /\ cleanupRun = 0
    /\ initRes = "none"
    /\ lookupFailed = FALSE

NextChain ==
    \E failPage \in 0 .. pages, failLink \in 0 .. pages : DmaChain(failPage, failLink)

SpecChain ==
    InitChain /\ [][NextChain]_vars

\* ==== properties ===========================================================

\* C1: ws2811_render never writes a word of the raw buffer while a DMA transfer
\* started by an earlier render is still in flight (ACTIVE set): every write of
\* a render call comes after that call saw, through the wait, no transfer in flight.
C1_orig ==
    ~wroteWhileActive

\* C2: in every render call dma_start runs only after ws2811_wait returned
\* success in that call, so DMA is never started while a transfer is active; and
\* when the wait reports an error, render returns failure straight from the
\* failed check, without starting DMA and without waiting again.
C2_thm ==
    /\ [](pc = "dma_start" => (call = "render" /\ wret = "ok" /\ ~dmaActive))
    /\ [][(~dmaActive /\ dmaActive') => pc = "dma_start"]_vars
    /\ [][(ret' = "render_fail" /\ ret # "render_fail") =>
            (pc = "wait_check" /\ wret' = "err" /\ pc' = "idle"
                /\ dmaActive' = dmaActive)]_vars

\* a render that found the previous transfer in flight, waited, and started DMA
C2_witness ==
    ret = "render_ok" /\ sawActive /\ dmaActive

\* C3: ws2811_wait returns failure exactly when it has read the ERROR flag set,
\* and success otherwise; it returns success only after its latest reading of
\* ACTIVE was clear (and ACTIVE is indeed clear then).
C3_thm ==
    [][(pc = "wait_check" /\ pc' # "wait_check") =>
        /\ (wret' = "err") <=> obsError'
        /\ (wret' = "ok") <=> ~obsError'
        /\ (wret' = "ok") => (obsActive = "clear" /\ ~dmaActive')]_vars

\* a wait that polled an active transfer and returned failure to the client
C3_witness ==
    ret = "wait_fail" /\ wret = "err" /\ sawActive

\* C4: ws2811_fini is safe from any partially-initialized state (after a failed
\* init, right after a previous fini): it never reads through a null device
\* pointer, and it leaves all owned fields null.
C4_orig ==
    /\ (initRes = "fail" => ~nullDeref)
    /\ (ret = "fini_done" =>
            (device = "NULL" /\ \A c \in Chans : ledsPtr[c] = "NULL"))

\* C5: ws2811_cleanup called twice in succession, after a successful or a failed
\* init, frees each owned resource at most once and leaves the device pointer and
\* every channel's colour array pointer null (nothing owned stays allocated).
C5_thm ==
    cleanupRun >= 1 =>
        /\ ~doubleFree
        /\ device = "NULL"
        /\ \A c \in Chans : ledsPtr[c] = "NULL"
        /\ heap = {}

\* the second of two successive cleanups after a successful init
C5_witness ==
    cleanupRun = 2 /\ initRes = "ok"

\* C6: whenever ws2811_init returns failure, none of the register windows mapped
\* during that call remains mapped.
C6_orig ==
    ret = "init_fail" => mapped = {}

\* C7: whenever ws2811_init returns failure, at whichever step, the device
\* pointer and every colour array pointer are null and every resource acquired
\* during the call (allocations and register windows) has been released.
C7_orig ==
    ret = "init_fail" =>
        /\ device = "NULL"
        /\ \A c \in Chans : ledsPtr[c] = "NULL"
        /\ heap = {}
        /\ mapped = {}

\* ---- reading the emitted stream back --------------------------------------
\* the three sub-bits of symbol s (0-based) of channel c, in emission order
SymbolAt(c, s) ==
    << emitted[c][3 * s + 1], emitted[c][3 * s + 2], emitted[c][3 * s + 3] >>

\* the data bit a symbol stands for (2 when it is not a symbol of the protocol)
DataBit(sym, inv) ==
    IF sym = (IF inv THEN << 0, 0, 1 >> ELSE << 1, 1, 0 >>) THEN 1
    ELSE IF sym = (IF inv THEN << 0, 1, 1 >> ELSE << 1, 0, 0 >>) THEN 0
    ELSE 2

\* the j-th (1..3) byte emitted for LED i (1-based) of channel c, first bit as MSB
EmittedByte(c, i, j) ==
    LET s0 == 24 * (i - 1) + 8 * (j - 1)
        bit(n) == DataBit(SymbolAt(c, s0 + n), invert[c])
    IN  128 * bit(0) + 64 * bit(1) + 32 * bit(2) + 16 * bit(3)
            + 8 * bit(4) + 4 * bit(5) + 2 * bit(6) + bit(7)

EmittedBytes(c, i) ==
    << EmittedByte(c, i, 1), EmittedByte(c, i, 2), EmittedByte(c, i, 3) >>

\* channel c has been rendered: all its sub-bits are in the emitted stream
Rendered(c) ==
    count[c] > 0 /\ Len(emitted[c]) = 72 * count[c]

\* bits 23..16 (red), 15..8 (green), 7..0 (blue) of a packed colour 0x00RRGGBB
RedOf(led) ==
    (led \div 65536) % 256

GreenOf(led) ==
    (led \div 256) % 256

BlueOf(led) ==
    led % 256

\* C8 as stated: a single-LED non-inverted channel of packed colour 0x010203
\* emits the bytes 0x01, 0x02, 0x03 in that order.
C8_orig ==
    \A c \in Chans :
        (Rendered(c) /\ count[c] = 1 /\ ~invert[c] /\ leds[c][1] = 66051)
            => EmittedBytes(c, 1) = << 1, 2, 3 >>

\* C8 amended: that channel emits 0x02 (green, bits 15..8), 0x01 (red, bits
\* 23..16), 0x03 (blue, bits 7..0); in general the first byte emitted for an LED
\* is the green byte of its packed colour, the second the red, the third the blue.
C8_thm ==
    \A c \in Chans :
        Rendered(c) =>
            /\ \A i \in 1 .. count[c] :
                    EmittedBytes(c, i) =
                        << GreenOf(leds[c][i]), RedOf(leds[c][i]), BlueOf(leds[c][i]) >>
            /\ (count[c] = 1 /\ ~invert[c] /\ leds[c][1] = 66051)
                    => EmittedBytes(c, 1) = << 2, 1, 3 >>

\* a rendered single-LED non-inverted channel of colour 0x010203
C8_witness ==
    \E c \in Chans :
        Rendered(c) /\ count[c] = 1 /\ ~invert[c] /\ leds[c][1] = 66051

\* C9: for every LED of every channel, each colour byte is emitted most
\* significant bit first, each bit as exactly 3 sub-bits: 1,1,0 for a 1 and 1,0,0
\* for a 0, complemented (0,0,1 and 0,1,1) on an inverted channel; a non-inverted
\* 0x000000 gives 72 sub-bits of 1,0,0 only and 0xFFFFFF 72 sub-bits of 1,1,0 only.
C9_thm ==
    \A c \in Chans :
        Rendered(c) =>
            \A i \in 1 .. count[c] :
                LET bytes == << GreenOf(leds[c][i]), RedOf(leds[c][i]), BlueOf(leds[c][i]) >>
                    symbols == [s \in 0 .. 23 |-> SymbolAt(c, 24 * (i - 1) + s)]
                IN  /\ \A j \in 1 .. 3, n \in 0 .. 7 :
                        symbols[8 * (j - 1) + n] =
                            IF (bytes[j] \div (2 ^ (7 - n))) % 2 = 1
                            THEN (IF invert[c] THEN << 0, 0, 1 >> ELSE << 1, 1, 0 >>)
                            ELSE (IF invert[c] THEN << 0, 1, 1 >> ELSE << 1, 0, 0 >>)
                    /\ (~invert[c] /\ leds[c][i] = 0)
                            => \A s \in 0 .. 23 : symbols[s] = << 1, 0, 0 >>
                    /\ (~invert[c] /\ leds[c][i] = 16777215)
                            => \A s \in 0 .. 23 : symbols[s] = << 1, 1, 0 >>

\* an inverted channel rendered with a colour that has both 0 and 1 bits
C9_witness ==
    \E c \in Chans :
        Rendered(c) /\ invert[c] /\ leds[c][count[c]] = 66051

\* C10: every sub-bit of channel 0 is stored in an even-indexed buffer word and
\* every sub-bit of channel 1 in an odd-indexed one; encoding a channel never
\* writes a word of the other channel.
C10_thm ==
    \A t \in touched : t[2] % 2 = t[1]

\* both channels rendered, each over more than one word
C10_witness ==
    /\ Rendered(0) /\ Rendered(1)
    /\ \A c \in Chans : Cardinality({t \in touched : t[1] = c}) >= 2

\* ---- where the sub-bits lie in the buffer ---------------------------------
\* position, in channel c's bit stream, of bit b of buffer word w (a word of c)
StreamPos(c, w, b) ==
    32 * ((w - c) \div 2) + (31 - b)

\* the value of bit b of buffer word w
BitOf(w, b) ==
    IF b \in raw[w] THEN 1 ELSE 0

\* the level pwm_raw_init gives every bit of channel c
IdleBit(c) ==
    IF invert[c] THEN 1 ELSE 0

\* C11: after init and any number of renders with fixed LED counts, every bit of
\* channel c's words from position 72*count[c] of that channel's bit stream
\* onward still holds the idle value of allocation: 0 for a non-inverted
\* channel, 1 for an inverted one.
C11_orig ==
    pwm_raw = "PTR" =>
        \A c \in Chans : \A w \in DOMAIN raw : \A b \in WordOnes :
            (w % 2 = c /\ StreamPos(c, w, b) >= 72 * count[c])
                => BitOf(w, b) = IdleBit(c)

\* C15: for each channel c, whatever the other channel's LED count, sub-bit
\* number p (from 0) of channel c's encoded stream is stored at bit
\* 31 - (p mod 32) of buffer word 2*floor(p/32) + c: each channel's encoding
\* starts at the most significant bit of its own first word.
C15_orig ==
    \A c \in Chans :
        Rendered(c) =>
            \A p \in 0 .. (72 * count[c] - 1) :
                /\ (2 * (p \div 32) + c) \in DOMAIN raw
                /\ BitOf(2 * (p \div 32) + c, 31 - (p % 32)) = emitted[c][p + 1]

\* ---- the chain as the DMA engine reads it ---------------------------------
\* the blocks the engine transfers, in order: from block k along nextconbk until
\* a link is 0 (a link that is no block of the chain ends the walk as well)
RECURSIVE ChainWalk(_, _, _)
ChainWalk(cb, k, fuel) ==
    IF k \notin DOMAIN cb \/ fuel = 0 THEN << >>
    ELSE << k >> \o ChainWalk(cb, cb[k].nextconbk, fuel - 1)

RECURSIVE SumLen(_, _)
SumLen(cb, w) ==
    IF w = << >> THEN 0 ELSE cb[Head(w)].txfr_len + SumLen(cb, Tail(w))

\* ws2811_init has returned success and the device is still set up
InitDone ==
    initRes = "ok" /\ dma_cb = "PTR"

RequiredBytes ==
    PWM_BYTE_COUNT(max_channel_led_count(count), freq)

\* C12: after a successful init the descriptor chain built over the pages of
\* the raw buffer has exactly ceil(requiredByteCount / PAGE_SIZE) descriptors,
\* each of length min(PAGE_SIZE, bytes remaining), and the lengths sum to
\* requiredByteCount(maxLedCount, frequency) exactly.
C12_orig ==
    InitDone =>
        LET w == ChainWalk(cbs, 1, Cardinality(DOMAIN cbs))
        IN  /\ Len(w) = (RequiredBytes + PAGE_SIZE - 1) \div PAGE_SIZE
            /\ \A i \in 1 .. Len(w) :
                  LET remaining == RequiredBytes - SumLen(cbs, SubSeq(w, 1, i - 1))
                  IN  cbs[w[i]].txfr_len =
                          (IF PAGE_SIZE < remaining THEN PAGE_SIZE ELSE remaining)
            /\ SumLen(cbs, w) = RequiredBytes

\* C14: after setup_pwm has built the chain over any page sequence, also one
\* with more pages than the byte count needs, the last emitted descriptor's
\* next field is zero and every earlier emitted descriptor's next field is the
\* address of the descriptor emitted after it: the DMA engine transfers exactly
\* the emitted descriptors and never follows a link to one that was not emitted.
C14_orig ==
    InitDone =>
        LET E == WrittenBlocks(cbs)
            last == CHOOSE k \in E : \A j \in E : j <= k
        IN  /\ E # {}
            /\ cbs[last].nextconbk = 0
            /\ \A k \in E \ {last} : cbs[k].nextconbk = k + 1 /\ (k + 1) \in E
            /\ \A i \in 1 .. Cardinality(DOMAIN cbs) :
                  LET w == ChainWalk(cbs, 1, i)
                  IN  w[Len(w)] \in E

\* C16: every caller of the address translator treats its failure sentinel as
\* fatal: when a bus address lookup made during initialization fails (the chain
\* head, a page's source address, a next-descriptor link), ws2811_init returns
\* failure; after a successful init no descriptor field holds the sentinel.
C16_orig ==
    /\ lookupFailed => initRes # "ok"
    /\ InitDone =>
          \A k \in DOMAIN cbs :
              cbs[k].source_ad # BUS_FAIL /\ cbs[k].nextconbk # BUS_FAIL

\* C13: for all (ledCount, frequency) pairs PWM_BYTE_COUNT is a multiple of the
\* 32-bit word size and of 8 bytes times the channel count, is monotonically
\* non-decreasing in ledCount, and equals ((requiredBitCount >> 3) rounded down
\* to a multiple of 8, plus 8) times the number of PWM channels; the buffer that
\* init fills has exactly that many bytes.
C13_thm ==
    pwm_raw = "PTR" =>
        LET n == max_channel_led_count(count)
        IN  /\ 4 * Cardinality(DOMAIN raw) = PWM_BYTE_COUNT(n, freq)
            /\ \A m \in 0 .. n :
                  /\ PWM_BYTE_COUNT(m, freq) % 4 = 0
                  /\ PWM_BYTE_COUNT(m, freq) % (8 * RPI_PWM_CHANNELS) = 0
                  /\ PWM_BYTE_COUNT(m, freq) <= PWM_BYTE_COUNT(m + 1, freq)
                  /\ PWM_BYTE_COUNT(m, freq) =
                        (8 * ((LED_BIT_COUNT(m, freq) \div 8) \div 8) + 8) * RPI_PWM_CHANNELS

\* init has sized and filled a buffer of more than two pages
C13_witness ==
    InitDone /\ Cardinality(DOMAIN raw) > 2 * (PAGE_SIZE \div 4)

\* the encoding pass of a render call is taking place in this step
RenderStep ==
    pc = "idle" /\ pc' = "wait_active" /\ call' = "render"

\* C17: the buffer after a render call depends only on the current colours, LED
\* counts and inversion flags, never on its previous contents: it equals the
\* buffer a render of the same colours leaves on a freshly initialized buffer
\* (so rendering B after A equals rendering B alone), and rendering the same
\* colours once more leaves it unchanged.
C17_thm ==
    [][RenderStep =>
        /\ raw' = Encode(pwm_raw_init(count, invert, freq), count, leds, invert).raw
        /\ Encode(raw', count, leds, invert).raw = raw']_vars

\* a render has overwritten the frame of an earlier render with different colours
C17_witness ==
    rewrote /\ ret = "render_ok"

\* C18: setup_pwm performs stop first and then advances Stopped -> ClockRunning
\* -> PwmArmed -> DmaChained -> Ready in that order: the PWM control register is
\* zeroed and, after the clock kill request, the busy flag is observed clear
\* before the divider is programmed; the clock is enabled and its busy flag
\* observed set before any PWM register is configured; the PWM outputs are
\* enabled before the descriptor chain is written; and stop_pwm returns the
\* peripheral to Stopped (PWM disabled, clock not busy) from any state.
C18_thm ==
    /\ [][((call = "init" \/ call' = "init") /\ pc' # pc) =>
            \/ pc = "idle" /\ pc' = "stop_pwm"
            \/ pc = "stop_pwm" /\ pc' = "stop_poll" /\ ~pwmOn' /\ ~clkEnab'
            \/ pc = "stop_poll" /\ pc' = "clk_setup" /\ ~pwmOn /\ ~clkEnab /\ ~clkBusy
            \/ pc = "clk_setup" /\ pc' = "clk_poll" /\ ~pwmOn /\ clkEnab'
            \/ pc = "clk_poll" /\ pc' = "pwm_setup" /\ ~pwmOn /\ clkEnab /\ clkBusy
            \/ pc = "pwm_setup" /\ pc' = "dma_chain" /\ pwmOn' /\ clkBusy /\ cbs = << >>
            \/ /\ pc = "dma_chain" /\ pc' = "idle" /\ pwmOn /\ clkBusy
               /\ initRes' = "ok" => (cbs' # << >> /\ pwmOn' /\ clkBusy' /\ ~dmaActive')]_vars
    /\ [][(pwmOn' # pwmOn) => pc \in {"stop_pwm", "pwm_setup"}]_vars
    /\ [][(cbs' # cbs /\ cbs' # << >>) => (pc = "dma_chain" /\ pwmOn /\ clkBusy)]_vars
    /\ [][(pc = "stop_poll" /\ pc' # "stop_poll") =>
            (~pwmOn' /\ ~clkEnab' /\ ~clkBusy')]_vars

\* Ready: init has returned success with the clock running, the PWM outputs
\* enabled and the chain written
C18_witness ==
    /\ ret = "init_ok" /\ initRes = "ok"
    /\ pwmOn /\ clkEnab /\ clkBusy /\ cbs # << >>

\* ---- ws2811_fini: order of its steps --------------------------------------
\* fini on an initialized device runs wait, stop_pwm, unmap_registers, cleanup
\* in that order, and frees only after its wait has returned
FiniOrder ==
    [][((call = "fini" \/ call' = "fini") /\ pc' # pc /\ pc' # "crashed") =>
        \/ pc = "idle" /\ pc' = "wait_active"
        \/ pc = "wait_active" /\ pc' \in {"wait_error", "wait_check"}
        \/ pc = "wait_error" /\ pc' \in {"wait_active", "wait_check"}
        \/ pc = "wait_check" /\ pc' = "stop_pwm" /\ wret' # "none" /\ pwm_raw = "PTR"
        \/ pc = "stop_pwm" /\ pc' = "stop_poll" /\ ~pwmOn' /\ ~clkEnab' /\ pwm_raw = "PTR"
        \/ pc = "stop_poll" /\ pc' = "fini_unmap" /\ ~clkBusy /\ mapped = Windows
                /\ pwm_raw = "PTR"
        \/ /\ pc = "fini_unmap" /\ pc' = "idle"
           /\ wret # "none" /\ ~pwmOn /\ ~clkBusy
           /\ mapped' = {} /\ heap' = {} /\ pwm_raw' = "NULL" /\ dma_cb' = "NULL"]_vars

\* the step of fini that releases the raw buffer and the descriptor storage
FiniRelease ==
    call = "fini" /\ pwm_raw = "PTR" /\ pwm_raw' = "NULL"

\* a step that reads or writes a device register finds its window mapped
RegsMapped ==
    /\ pc \in {"wait_active", "wait_error", "wait_check", "dma_start", "dma_chain"}
            => "dma" \in mapped
    /\ pc \in {"stop_pwm", "pwm_setup"} => "pwm" \in mapped
    /\ pc \in {"stop_pwm", "stop_poll", "clk_setup", "clk_poll"} => "cm_pwm" \in mapped

C20_orig ==
    pwm_raw = "PTR" =>
        /\ ~oob
        /\ \A t \in touched : t[2] < RequiredBytes \div 4

\* C21: a failed ws2811_init never leaves the peripheral running: when init
\* fails after the clock and the PWM have been started (a bus address lookup
\* fails while the descriptor chain is being built), the PWM outputs are
\* disabled and the clock is stopped before the failure is returned.
C21_orig ==
    [][(pc = "dma_chain" /\ ret' = "init_fail") =>
        (~pwmOn' /\ ~clkEnab' /\ ~clkBusy')]_vars

====
